---- MODULE Spec2Model ----
(***************************************************************************)
(* A model of src/src/pipeline/inference/sampler.py: the building blocks   *)
(* of the loss-projected posterior sampler (randn_params,                  *)
(* linearized_predict, batched_JJt, precompute_inverse_, batched_proj) and *)
(* the driver alternating_projection_sampler.                              *)
(*                                                                         *)
(* Tensors are records [shape, data] with data in row-major order.  A      *)
(* parameter dictionary is a function from parameter names to tensors.     *)
(* Floating-point numbers are modelled exactly: integers where the code    *)
(* only adds and multiplies, normalised fractions <<num, den>> where it    *)
(* divides (the pseudo-inverse, the prior scale, and what follows them).   *)
(***************************************************************************)
EXTENDS Integers, Sequences, FiniteSets, TLC

\* ------------------------------------------------------------------------
\* Bounds of the model
\* ------------------------------------------------------------------------

\* Largest magnitude of an entry of a candidate / tangent / second parameter set.
MaxVal == 1

\* Largest number of minibatches the data loader yields in one pass.
MaxBatches == 2

\* Largest n_samples argument.
MaxSamples == 3

\* Largest number of calls of precompute_inverse_ in one behaviour.
MaxCalls == 2

\* Minibatch sizes B.  The pseudo-inverse below is the closed form for 1x1
\* and 2x2 matrices, which covers rank 0, 1 and 2.
BatchSizes == {1, 2}

Vals == (0 - MaxVal)..MaxVal

\* ------------------------------------------------------------------------
\* Exact arithmetic
\* ------------------------------------------------------------------------

Abs(n) == IF n < 0 THEN 0 - n ELSE n

RECURSIVE Gcd(_, _)
Gcd(a, b) == IF b = 0 THEN a ELSE Gcd(b, a % b)

\* The fraction n/d (d # 0) in lowest terms with a positive denominator.
Q(n, d) ==
    LET g == Gcd(Abs(n), Abs(d))
        s == IF d < 0 THEN 0 - 1 ELSE 1
    IN  <<(s * n) \div g, (s * d) \div g>>

QInt(n) == <<n, 1>>
QZero == <<0, 1>>
QAdd(a, b) == Q(a[1] * b[2] + b[1] * a[2], a[2] * b[2])
QSub(a, b) == Q(a[1] * b[2] - b[1] * a[2], a[2] * b[2])
QMul(a, b) == Q(a[1] * b[1], a[2] * b[2])

RECURSIVE Sum(_)
Sum(s) == IF s = <<>> THEN 0 ELSE Head(s) + Sum(Tail(s))

RECURSIVE QSum(_)
QSum(s) == IF s = <<>> THEN QZero ELSE QAdd(Head(s), QSum(Tail(s)))

RECURSIVE Prod(_)
Prod(s) == IF s = <<>> THEN 1 ELSE Head(s) * Prod(Tail(s))

RECURSIVE Flat(_)
Flat(ss) == IF ss = <<>> THEN <<>> ELSE Head(ss) \o Flat(Tail(ss))

Dot(a, b) == Sum([i \in 1..Len(a) |-> a[i] * b[i]])

\* ------------------------------------------------------------------------
\* Tensors and parameter dictionaries
\* ------------------------------------------------------------------------

Tensor(shape, data) == [shape |-> shape, data |-> data]

\* Number of entries of a tensor of the given shape (1 for a scalar, shape <<>>).
Numel(shape) == Prod(shape)

\* Python dictionaries keep insertion order; the model's dictionaries list
\* their names in this order.
NameOrder == <<"weight", "bias">>

Keys(d) == SelectSeq(NameOrder, LAMBDA k : k \in DOMAIN d)

\* The parameter templates: the name -> shape maps of the models considered.
Templates ==
    { [weight |-> <<2>>],
      [weight |-> <<2>>, bias |-> <<1>>],
      [weight |-> <<1, 2>>, bias |-> <<>>] }

\* The parameter dictionary of template t with every entry equal to c.
Filled(t, c) ==
    [k \in DOMAIN t |-> Tensor(t[k], [i \in 1..Numel(t[k]) |-> c])]

\* Every parameter dictionary of template t with entries in S.
ParamSets(t, S) ==
    { d \in [DOMAIN t -> UNION { {Tensor(t[k], dd) : dd \in [1..Numel(t[k]) -> S]}
                                  : k \in DOMAIN t }]
        : \A k \in DOMAIN t : d[k].shape = t[k] }

SameNamesAndShapes(a, b) ==
    /\ DOMAIN a = DOMAIN b
    /\ \A k \in DOMAIN a : a[k].shape = b[k].shape

\* ------------------------------------------------------------------------
\* The caller's function `func` and its derivatives
\* ------------------------------------------------------------------------
\* func is an argument of every operation.  The model takes it from a family
\* built on a linear predictor: for an example (x, y)
\*     pred(params, x) = sum_k <params[k], feat_k(x)>,
\*     feat_weight(x) = x,  feat_bias(x) = 1,
\*   kind "lin":  func = pred - y         (affine in the parameters)
\*   kind "sq":   func = (pred - y)^2     (not affine)
\* seqOK says whether func also accepts a sequence of dictionaries in place
\* of the dictionary (as torch.func.functional_call does); a func that
\* indexes params by name does not.

FuncKinds == {"lin", "sq"}

Funcs == [kind : FuncKinds, seqOK : BOOLEAN]

Feat(k, x) == IF k = "bias" THEN <<1>> ELSE x

Pred(p, x) ==
    LET ks == Keys(p)
    IN  Sum([j \in 1..Len(ks) |-> Dot(p[ks[j]].data, Feat(ks[j], x))])

\* func(params, x, y)
Func(f, p, x, y) ==
    LET r == Pred(p, x) - y
    IN  IF f.kind = "lin" THEN r ELSE r * r

\* d func / d residual at (params, x, y)
DFunc(f, p, x, y) == IF f.kind = "lin" THEN 1 ELSE 2 * (Pred(p, x) - y)

\* tf.jacrev(func)(params, x, y): the gradient of func in the parameters, a
\* dictionary with the names and shapes of params.
JacRev(f, p, x, y) ==
    [k \in DOMAIN p |->
        Tensor(p[k].shape,
               [i \in 1..Numel(p[k].shape) |-> DFunc(f, p, x, y) * Feat(k, x)[i]])]

\* tf.vmap(tf.jacrev(func), (None, 0, 0))(params, xb, yb): per name a tensor
\* of shape (B, *params[name].shape), example n's gradient in row n.
VmapJacRev(f, p, xb, yb) ==
    [k \in DOMAIN p |->
        Tensor(<<Len(xb)>> \o p[k].shape,
               Flat([n \in 1..Len(xb) |-> JacRev(f, p, xb[n], yb[n])[k].data]))]

\* j.flatten(1): dimensions 1.. merged into one.
Flatten1(j) == Tensor(<<j.shape[1], Prod(Tail(j.shape))>>, j.data)

\* torch.einsum('NP,MP->NM', a, b) of two matrices.
EinsumNPMP(a, b) ==
    LET N == a.shape[1]
        M == b.shape[1]
        P == a.shape[2]
    IN  Tensor(<<N, M>>,
               [i \in 1..(N * M) |->
                   LET n == (i - 1) \div M
                       m == (i - 1) % M
                   IN  Sum([q \in 1..P |-> a.data[n * P + q] * b.data[m * P + q]])])

\* torch.stack(ts).sum(0) of equally shaped tensors.
StackSum0(ts) ==
    Tensor(ts[1].shape,
           [i \in 1..Len(ts[1].data) |-> Sum([j \in 1..Len(ts) |-> ts[j].data[i]])])

\* The per-name blocks batched_JJt contracts: jac.values(), each flattened.
JacBlocks(f, p, xb, yb) ==
    LET jac == VmapJacRev(f, p, xb, yb)
        ks  == Keys(jac)
    IN  [j \in 1..Len(ks) |-> Flatten1(jac[ks[j]])]

\* The blocks the contraction runs over with the last parameter tensor left out.
BlocksSkipLast(blocks) == SubSeq(blocks, 1, IF Len(blocks) > 1 THEN Len(blocks) - 1 ELSE 1)

ContractedBlocksSkipLast(blocks) ==
    LET bs == BlocksSkipLast(blocks)
    IN  [j \in 1..Len(bs) |-> EinsumNPMP(bs[j], bs[j])]

\* [torch.einsum(einsum_expr, j, j) for j in jac]
ContractedBlocks(blocks) ==
    [j \in 1..Len(blocks) |-> EinsumNPMP(blocks[j], blocks[j])]

\* batched_JJt(func, params, xb, yb)
batched_JJt(f, p, xb, yb) ==
    StackSum0(ContractedBlocks(JacBlocks(f, p, xb, yb)))

\* ------------------------------------------------------------------------
\* Python values an operation can hand back
\* ------------------------------------------------------------------------

PyDict(d) == [kind |-> "dict", val |-> d]
PyTuple(items) == [kind |-> "tuple", items |-> items]
PyError(e) == [kind |-> "error", exc |-> e]
PyNone == [kind |-> "none"]

\* ------------------------------------------------------------------------
\* randn_params
\* ------------------------------------------------------------------------

\* Precisions whose square root is exact.
Precisions == {1, 4}

Sqrt(n) == CHOOSE r \in 0..n : r * r = n

\* The values torch.randn_like(v) can draw for a tensor shaped like v.
RandnLike(v) == { Tensor(v.shape, dd) : dd \in [1..Len(v.data) -> Vals] }

\* All joint draws for the tensors of a template.
RandnDraws(param_template) ==
    { z \in [DOMAIN param_template ->
                UNION { RandnLike(param_template[k]) : k \in DOMAIN param_template }]
        : \A k \in DOMAIN param_template : z[k].shape = param_template[k].shape }

\* randn_params(param_template, precision, n_samples), z[k] being the draw
\* of torch.randn_like(v) for name k.
randn_params(param_template, precision, n_samples, z) ==
    [k \in DOMAIN param_template |->
        Tensor(z[k].shape,
               [i \in 1..Len(z[k].data) |->
                   QMul(Q(1, Sqrt(precision)), QInt(z[k].data[i]))])]

\* ------------------------------------------------------------------------
\* linearized_predict
\* ------------------------------------------------------------------------

\* A func of two arguments, func(params, x): the family above without target.
FuncX(f, p, x) == Func(f, p, x, 0)

\* The tangent with its sign reversed.
ParamDiffReversed(param0, param1) ==
    [k \in DOMAIN param0 |->
        Tensor(param0[k].shape,
               [i \in 1..Len(param0[k].data) |-> param0[k].data[i] - param1[k].data[i]])]

\* param_diff = {k: param1[k]-v for k, v in param0.items()}
ParamDiff(param0, param1) ==
    [k \in DOMAIN param0 |->
        Tensor(param1[k].shape,
               [i \in 1..Len(param0[k].data) |-> param1[k].data[i] - param0[k].data[i]])]

\* The tangent output of tf.jvp(fp, (p,), (t,)) for fp = func(., x, y):
\* the derivative of func at p along t.
JvpOne(f, p, t, x, y) ==
    LET g  == JacRev(f, p, x, y)
        ks == Keys(p)
    IN  Sum([j \in 1..Len(ks) |-> Dot(g[ks[j]].data, t[ks[j]].data)])

\* linearized_predict(func, param0, param1, x)
linearized_predict(f, param0, param1, x) ==
    LET param_diff == ParamDiff(param0, param1)
        outputs    == FuncX(f, param0, x)
        jvp_val    == JvpOne(f, param0, param_diff, x, 0)
    IN  outputs + jvp_val

\* ------------------------------------------------------------------------
\* precompute_inverse_ and batched_proj
\* ------------------------------------------------------------------------

\* torch.linalg.pinv of a 1x1 or 2x2 matrix: the Moore-Penrose inverse.
\* Full rank: the inverse; rank one: the transpose over the squared
\* Frobenius norm; the zero matrix: itself.
Pinv(M) ==
    IF M.shape[1] = 1
    THEN LET a == M.data[1]
         IN  Tensor(M.shape, << IF a = 0 THEN QZero ELSE Q(1, a) >>)
    ELSE LET a == M.data[1]
             b == M.data[2]
             c == M.data[3]
             d == M.data[4]
             det == a * d - b * c
             fro == a * a + b * b + c * c + d * d
         IN  IF det # 0
             THEN Tensor(M.shape, << Q(d, det), Q(0 - b, det), Q(0 - c, det), Q(a, det) >>)
             ELSE IF fro # 0
             THEN Tensor(M.shape, << Q(a, fro), Q(c, fro), Q(b, fro), Q(d, fro) >>)
             ELSE Tensor(M.shape, << QZero, QZero, QZero, QZero >>)

\* A minibatch `data`: xb, yb = data
Xb(data) == data.xb
Yb(data) == data.yb

\* The loop's minibatches taken from the far end of the loader.
BatchAtReversed(loader, b) == loader[Len(loader) - b]

\* The minibatch the loop `for b, data in enumerate(train_loader)` handles at
\* index b (from 0).
BatchAt(loader, b) == loader[b + 1]

\* The cache entry of one minibatch:
\* torch.linalg.pinv(batched_JJt(func, params, xb, yb))
CacheEntry(f, p, data) == Pinv(batched_JJt(f, p, Xb(data), Yb(data)))

\* fp(p) = tf.vmap(func, (None, 0, 0))(p, xb, yb), and the tangent output
\* of tf.jvp(fp, (params,), (new_params,)): the vector J v.
JvpBatch(f, p, v, xb, yb) ==
    [n \in 1..Len(xb) |-> JvpOne(f, p, v, xb[n], yb[n])]

\* torch.matmul(invJJt, jvp)
MatVec(invJJt, jvp) ==
    LET B == Len(jvp)
    IN  [n \in 1..B |->
            QSum([m \in 1..B |-> QMul(invJJt.data[(n - 1) * B + m], QInt(jvp[m]))])]

\* What vjp_fn(c) computes for the parameter dictionary: J^T c, with the
\* names and shapes of params.
VjpBatch(f, p, c, xb, yb) ==
    [k \in DOMAIN p |->
        Tensor(p[k].shape,
               [i \in 1..Numel(p[k].shape) |->
                   QSum([n \in 1..Len(xb) |->
                            QMul(c[n], QInt(JacRev(f, p, xb[n], yb[n])[k].data[i]))])])]

\* batched_proj(func, params, new_params, xb, yb, invJJt); new_params is a
\* Python value.
\*  - tf.jvp(fp, (params,), (new_params,)) raises unless the tangent has the
\*    primal's structure: a dictionary with the names and shapes of params.
\*  - tf.vjp(fp, (params,)) passes the tuple (params,) as fp's one primal, so
\*    func is called with a tuple in place of the dictionary, and vjp_fn
\*    returns a tuple with one item per primal, the item shaped like the
\*    primal: ((dict,),).
batched_proj(f, p, new_params, xb, yb, invJJt) ==
    IF new_params.kind # "dict" THEN PyError("RuntimeError")
    ELSE IF ~SameNamesAndShapes(new_params.val, p) THEN PyError("RuntimeError")
    ELSE IF ~f.seqOK THEN PyError("TypeError")
    ELSE LET jvp       == JvpBatch(f, p, new_params.val, xb, yb)
             invJJt_Jv == MatVec(invJJt, jvp)
         IN  PyTuple(<< PyTuple(<< PyDict(VjpBatch(f, p, invJJt_Jv, xb, yb)) >>) >>)

\* ------------------------------------------------------------------------
\* Inputs
\* ------------------------------------------------------------------------

\* Entries of the reference parameters.
RefVals == {0, 1}

\* Reference parameter dictionaries (params, param0).
RefParams == UNION { ParamSets(t, RefVals) : t \in Templates }

\* The template of a parameter dictionary.
TemplateOf(p) == [k \in DOMAIN p |-> p[k].shape]

\* One training example: an input x (as long as the weight) and a target y.
Examples == [x : {<<0, 0>>, <<0, 1>>, <<1, 0>>, <<1, 1>>}, y : {0, 1}]

MkBatch(es) == [xb |-> [n \in 1..Len(es) |-> es[n].x], yb |-> [n \in 1..Len(es) |-> es[n].y]]

\* Every minibatch (xb, yb) of a size in BatchSizes.
Minibatches == { MkBatch(es) : es \in UNION { [1..B -> Examples] : B \in BatchSizes } }

\* The minibatches the loaders of the precomputation are made of: sizes 1 and
\* 2, and J J^T of rank 0, 1 and 2 among them.
LoaderPool ==
    { MkBatch(<< [x |-> <<1, 0>>, y |-> 0] >>),
      MkBatch(<< [x |-> <<0, 0>>, y |-> 0], [x |-> <<0, 0>>, y |-> 1] >>),
      MkBatch(<< [x |-> <<1, 1>>, y |-> 1], [x |-> <<1, 1>>, y |-> 0] >>),
      MkBatch(<< [x |-> <<1, 0>>, y |-> 1], [x |-> <<0, 1>>, y |-> 0] >>) }

\* Data loaders: the sequence of minibatches one pass yields.
Loaders == UNION { [1..n -> LoaderPool] : n \in 1..MaxBatches }

\* The identifier a persisted cache of (func, params, train_loader) is kept under.
CacheId(f, p, loader) == <<f, p, loader>>

\* ------------------------------------------------------------------------
\* State
\* ------------------------------------------------------------------------

VARIABLES
    func,          \* the argument func
    params,        \* the argument params (param0, param_template)
    train_loader,  \* the data loader: the minibatches of one pass
    input,         \* the other arguments of the operation called
    pc,            \* where the call in progress stands
    b,             \* precompute_inverse_: the loop index
    cache,         \* precompute_inverse_: the list being built
    yielded,       \* the minibatches the loader has yielded, in order, this call
    computed,      \* how many J J^T were computed and inverted so far
    store,         \* the cache store: identifier -> persisted sequence
    out,           \* the values returned so far, in order
    samples        \* what alternating_projection_sampler returned

vars == <<func, params, train_loader, input, pc, b, cache, yielded, computed,
          store, out, samples>>

NotCalled == [kind |-> "not_called"]

InitLocals ==
    /\ pc = "idle"
    /\ b = 0
    /\ cache = <<>>
    /\ yielded = <<>>
    /\ computed = 0
    /\ store = <<>>
    /\ out = <<>>
    /\ samples = NotCalled

\* ------------------------------------------------------------------------
\* precompute_inverse_, called up to MaxCalls times on the same arguments
\* ------------------------------------------------------------------------

Init ==
    /\ func \in Funcs
    /\ params \in { Filled(t, c) : t \in Templates, c \in RefVals }
    /\ train_loader \in Loaders
    /\ input = [op |-> "precompute_inverse_"]
    /\ InitLocals

\* precompute_inverse_ is entered: cache = []
PrecomputeCall ==
    /\ pc = "idle"
    /\ Len(out) < MaxCalls
    /\ pc' = "loop"
    /\ cache' = <<>>
    /\ b' = 0
    /\ yielded' = <<>>
    /\ UNCHANGED <<func, params, train_loader, input, computed, store, out, samples>>

\* One iteration of `for b, data in enumerate(tqdm.tqdm(train_loader))`.
PrecomputeIter ==
    /\ pc = "loop"
    /\ b < Len(train_loader)
    /\ LET data == BatchAt(train_loader, b)
       IN  cache' = Append(cache, CacheEntry(func, params, data))
    /\ yielded' = Append(yielded, BatchAt(train_loader, b))
    /\ computed' = computed + 1
    /\ b' = b + 1
    /\ UNCHANGED <<func, params, train_loader, input, pc, store, out, samples>>

\* The loader is exhausted: return cache
PrecomputeReturn ==
    /\ pc = "loop"
    /\ b = Len(train_loader)
    /\ out' = Append(out, cache)
    /\ pc' = "idle"
    /\ UNCHANGED <<func, params, train_loader, input, b, cache, yielded, computed,
                   store, samples>>

Next == PrecomputeCall \/ PrecomputeIter \/ PrecomputeReturn

Spec == Init /\ [][Next]_vars

\* ------------------------------------------------------------------------
\* alternating_projection_sampler
\* ------------------------------------------------------------------------

InitSampler ==
    /\ func \in Funcs
    /\ params \in { Filled(t, c) : t \in Templates, c \in RefVals }
    /\ train_loader \in Loaders
    /\ input \in [n_samples : 1..MaxSamples, prior_precision : Precisions]
    /\ InitLocals

\* alternating_projection_sampler(n_samples, func, params, prior_precision,
\* dataloader): the body is a docstring and three comments, so the call
\* computes nothing, reads and writes no cache, and returns None at once.
SamplerCall ==
    /\ pc = "idle"
    /\ samples = NotCalled
    /\ samples' = PyNone
    /\ pc' = "done"
    /\ UNCHANGED <<func, params, train_loader, input, b, cache, yielded, computed,
                   store, out>>

NextSampler == SamplerCall

SpecSampler == InitSampler /\ [][NextSampler]_vars

\* ------------------------------------------------------------------------
\* batched_JJt on its own
\* ------------------------------------------------------------------------

InitJJt ==
    /\ func \in Funcs
    /\ params \in RefParams
    /\ train_loader \in { <<d>> : d \in Minibatches }
    /\ input = [op |-> "batched_JJt"]
    /\ InitLocals

JJtCall ==
    /\ pc = "idle"
    /\ LET data == train_loader[1]
       IN  out' = Append(out, batched_JJt(func, params, Xb(data), Yb(data)))
    /\ pc' = "done"
    /\ UNCHANGED <<func, params, train_loader, input, b, cache, yielded, computed,
                   store, samples>>

NextJJt == JJtCall

SpecJJt == InitJJt /\ [][NextJJt]_vars

\* ------------------------------------------------------------------------
\* linearized_predict on its own
\* ------------------------------------------------------------------------

InitLin ==
    /\ func \in Funcs
    /\ params \in RefParams
    /\ train_loader = <<>>
    /\ input \in [param1 : ParamSets(TemplateOf(params), Vals),
                  x : {<<0, 1>>, <<1, 0>>, <<1, 1>>, <<2, 1>>}]
    /\ InitLocals

LinCall ==
    /\ pc = "idle"
    /\ out' = Append(out, linearized_predict(func, params, input.param1, input.x))
    /\ pc' = "done"
    /\ UNCHANGED <<func, params, train_loader, input, b, cache, yielded, computed,
                   store, samples>>

NextLin == LinCall

SpecLin == InitLin /\ [][NextLin]_vars

\* ------------------------------------------------------------------------
\* randn_params on its own
\* ------------------------------------------------------------------------

InitRandn ==
    /\ func \in Funcs
    /\ params \in { Filled(t, 0) : t \in Templates }
    /\ train_loader = <<>>
    /\ input \in [precision : Precisions, n_samples : 1..MaxSamples]
    /\ InitLocals

RandnCall ==
    /\ pc = "idle"
    /\ \E z \in RandnDraws(params) :
          out' = Append(out, randn_params(params, input.precision, input.n_samples, z))
    /\ pc' = "done"
    /\ UNCHANGED <<func, params, train_loader, input, b, cache, yielded, computed,
                   store, samples>>

NextRandn == RandnCall

SpecRandn == InitRandn /\ [][NextRandn]_vars

\* ------------------------------------------------------------------------
\* batched_proj on its own, and applied to its own output
\* ------------------------------------------------------------------------

\* The minibatch is the loader's only one and invJJt its cache entry, as
\* precompute_inverse_ produces it.
InitProj ==
    /\ func \in Funcs
    /\ params \in { Filled(t, c) : t \in Templates, c \in RefVals }
    /\ train_loader \in { <<d>> : d \in LoaderPool }
    /\ input \in [new_params : ParamSets(TemplateOf(params), Vals),
                  invJJt : {CacheEntry(func, params, train_loader[1])}]
    /\ InitLocals

\* batched_proj(func, params, new_params, xb, yb, invJJt)
ProjCall ==
    /\ pc = "idle"
    /\ LET data == train_loader[1]
       IN  out' = Append(out, batched_proj(func, params, PyDict(input.new_params),
                                           Xb(data), Yb(data), input.invJJt))
    /\ pc' = "projected"
    /\ UNCHANGED <<func, params, train_loader, input, b, cache, yielded, computed,
                   store, samples>>

\* batched_proj(func, params, <the value the first call returned>, xb, yb, invJJt)
ProjAgain ==
    /\ pc = "projected"
    /\ out[1].kind # "error"
    /\ LET data == train_loader[1]
       IN  out' = Append(out, batched_proj(func, params, out[1],
                                           Xb(data), Yb(data), input.invJJt))
    /\ pc' = "reprojected"
    /\ UNCHANGED <<func, params, train_loader, input, b, cache, yielded, computed,
                   store, samples>>

NextProj == ProjCall \/ ProjAgain

SpecProj == InitProj /\ [][NextProj]_vars

\* ------------------------------------------------------------------------
\* Properties
\* ------------------------------------------------------------------------

\* The full Jacobian J of the minibatch, built directly: row n is example
\* n's gradient, the per-tensor blocks concatenated along the parameter axis.
FullJacobian(f, p, data) ==
    [n \in 1..Len(Xb(data)) |->
        LET g  == JacRev(f, p, Xb(data)[n], Yb(data)[n])
            ks == Keys(p)
        IN  Flat([j \in 1..Len(ks) |-> g[ks[j]].data])]

\* A parameter dictionary as one flat vector, names in order.
FlatParams(d) ==
    LET ks == Keys(d)
    IN  Flat([j \in 1..Len(ks) |-> d[ks[j]].data])

ToQ(s) == [i \in 1..Len(s) |-> QInt(s[i])]

QDot(u, w) == QSum([i \in 1..Len(u) |-> QMul(u[i], w[i])])

\* The dictionary inside a returned value: the value itself, or the one
\* item of a tuple, to any depth.
RECURSIVE Payload(_)
Payload(v) ==
    IF v.kind = "tuple" /\ Len(v.items) = 1 THEN Payload(v.items[1]) ELSE v

TheBatch == train_loader[1]

\* J^T M^-1 J v of the projection's inputs, as a flat vector of fractions.
JtMinvJv ==
    LET J == FullJacobian(func, params, TheBatch)
        B == Len(J)
        v == FlatParams(input.new_params)
        Jv == [n \in 1..B |-> Dot(J[n], v)]
        c == [n \in 1..B |->
                 QSum([m \in 1..B |-> QMul(input.invJJt.data[(n - 1) * B + m], QInt(Jv[m]))])]
    IN  [i \in 1..Len(v) |-> QSum([n \in 1..B |-> QMul(c[n], QInt(J[n][i]))])]

Projected == pc \in {"projected", "reprojected"}

\* C1: the value batched_proj returns is v - J^T M^-1 J v: the result of the
\* reverse pass is subtracted entrywise from v (read here through any tuple
\* the value is wrapped in).
C1_ProjSubtractsFromV ==
    (Projected /\ out[1].kind # "error") =>
        LET w == Payload(out[1])
            v == ToQ(FlatParams(input.new_params))
        IN  /\ w.kind = "dict"
            /\ FlatParams(w.val) = [i \in 1..Len(v) |-> QSub(v[i], JtMinvJv[i])]

\* C2: the value batched_proj returns is a parameter dictionary with exactly
\* the names and the shapes of v, not a container around one.
C2_ProjReturnsParameterSet ==
    Projected =>
        /\ out[1].kind = "dict"
        /\ SameNamesAndShapes(out[1].val, input.new_params)

\* C3: batched_proj applied to its own output (same func, params, minibatch
\* and inverse) returns what the first application returned.
C3_ProjIdempotent ==
    pc = "reprojected" => out[2] = out[1]

\* C4: the output w of batched_proj lies in the null space of the
\* minibatch's Jacobian: J w is the zero vector (w read through any tuple it
\* is wrapped in).
C4_ProjInNullSpace ==
    (Projected /\ out[1].kind # "error") =>
        LET w == Payload(out[1])
            J == FullJacobian(func, params, TheBatch)
        IN  /\ w.kind = "dict"
            /\ \A n \in 1..Len(J) : QDot(ToQ(J[n]), FlatParams(w.val)) = QZero

\* C5: precompute_inverse_ goes through the loader once, in order: while it
\* runs, the cache holds one entry per minibatch yielded so far, entry i the
\* pseudo-inverse of J J^T of the i-th minibatch; what it returns has one
\* entry per minibatch of the pass, in the loader's order.
C5_PrecomputeOnePassInOrder ==
    /\ pc = "loop" =>
          /\ Len(cache) = b
          /\ yielded = SubSeq(train_loader, 1, b)
          /\ \A i \in 1..b : cache[i] = CacheEntry(func, params, train_loader[i])
    /\ (pc = "idle" /\ Len(out) > 0) => yielded = train_loader
    /\ \A c \in 1..Len(out) :
          /\ Len(out[c]) = Len(train_loader)
          /\ \A i \in 1..Len(train_loader) :
                out[c][i] = CacheEntry(func, params, train_loader[i])

\* C5 witness: a pass over two different minibatches has returned, with two
\* different cache entries.
C5_Witness ==
    /\ pc = "idle"
    /\ Len(out) >= 1
    /\ Len(train_loader) = 2
    /\ train_loader[1] # train_loader[2]
    /\ out[1][1] # out[1][2]

\* C6: once a precomputation has returned, the store holds its sequence
\* under the cache identifier, and a later call with the same identifier
\* loads it: no J J^T is computed beyond those of the first pass.
C6_CachePersistedAndReused ==
    /\ Len(out) >= 1 =>
          /\ CacheId(func, params, train_loader) \in DOMAIN store
          /\ store[CacheId(func, params, train_loader)] = out[1]
    /\ computed <= Len(train_loader)

\* C7: when alternating_projection_sampler has returned, the inverse cache
\* was built or loaded before that, and the value returned is a sequence of
\* exactly n_samples posterior samples.
C7_SamplerReturnsNSamples ==
    samples # NotCalled =>
        /\ \/ Len(out) >= 1
           \/ CacheId(func, params, train_loader) \in DOMAIN store
        /\ samples.kind = "list"
        /\ Len(samples.items) = input.n_samples

\* C8: randn_params returns the template's names, and for n_samples > 1
\* every tensor has a leading axis of length n_samples in front of the
\* template's shape.
C8_RandnStacksSamples ==
    pc = "done" =>
        /\ DOMAIN out[1] = DOMAIN params
        /\ input.n_samples > 1 =>
              \A k \in DOMAIN params :
                  /\ out[1][k].shape = <<input.n_samples>> \o params[k].shape
                  /\ Len(out[1][k].data) = input.n_samples * Numel(params[k].shape)

\* C9: linearized_predict returns f(param0, x) + J_f(param0) (param1 - param0).
\* For the family of funcs the derivative along t is DFunc * pred(t), so:
\* the value is the first-order Taylor expansion; it is func(param1, x) when
\* func is affine and func(param0, x) when param1 = param0; and for the
\* squared func it falls short of func(param1, x) by the second-order term.
C9_LinearizedPredictTaylor ==
    pc = "done" =>
        LET d == Pred(input.param1, input.x) - Pred(params, input.x)
        IN  /\ out[1] = FuncX(func, params, input.x) + DFunc(func, params, input.x, 0) * d
            /\ func.kind = "lin" => out[1] = FuncX(func, input.param1, input.x)
            /\ input.param1 = params => out[1] = FuncX(func, params, input.x)
            /\ func.kind = "sq" => FuncX(func, input.param1, input.x) - out[1] = d * d

\* C9 witness: a func that is not affine, a param1 away from param0, and a
\* linearized value that differs from both func(param0, x) and func(param1, x).
C9_Witness ==
    /\ pc = "done"
    /\ func.kind = "sq"
    /\ input.param1 # params
    /\ out[1] # FuncX(func, input.param1, input.x)
    /\ out[1] # FuncX(func, params, input.x)

====
